---- MODULE Spec2Model ----
(***************************************************************************)
(* Model of the data-insight dashboard of src/main.py: the Flask server    *)
(* (get_real_time_data, plot_to_json, index, update_data) and the client   *)
(* script of templates/index.html (initial render, updateDashboard).       *)
(***************************************************************************)
EXTENDS Integers, Sequences, FiniteSets, TLC

(***************************************************************************)
(* Bounds of the model.                                                    *)
(***************************************************************************)
\* Largest number of rows of a table handed to plot_to_json in SpecPlot.
MaxRows == 2
\* Number of HTTP requests (page loads, refreshes, foreign calls) in a run.
MaxRequests == 4

(***************************************************************************)
(* JSON text.  A text is a sequence of tokens: punctuation, strings and    *)
(* numbers.  Every token carries the same three fields.                    *)
(***************************************************************************)
P(s) == [k |-> "punct", s |-> s, n |-> 0]
S(s) == [k |-> "str", s |-> s, n |-> 0]
N(n) == [k |-> "num", s |-> "", n |-> n]

\* A list of strings and a list of numbers as JSON array elements.
Strings(seq) == [i \in 1..Len(seq) |-> S(seq[i])]
Numbers(seq) == [i \in 1..Len(seq) |-> N(seq[i])]

\* json.dumps({}): the text "{}".
json_dumps_empty == <<P("{"), P("}")>>

\* json.dumps(fig, cls=PlotlyJSONEncoder): the figure's to_plotly_json(),
\* {"data": [{"type": .., "x": [..], "y": [..]}], "layout": {"title": ..}}.
json_dumps_fig(fig) ==
    <<P("{"), S("data"), P("["), P("{"), S("type"), S(fig.type), S("x"), P("[")>>
    \o Strings(fig.x)
    \o <<P("]"), S("y"), P("[")>>
    \o Numbers(fig.y)
    \o <<P("]"), P("}"), P("]"), S("layout"), P("{"), S("title"), S(fig.title),
         P("}"), P("}")>>

(***************************************************************************)
(* Python: names bound in the module's namespace, and exception classes.   *)
(***************************************************************************)
\* Names the import statements and the defs bind.  "import plotly.express as
\* px" binds px only: the name plotly is not bound.
ModuleGlobals ==
    {"Flask", "render_template", "jsonify", "request", "pd", "px", "go", "json",
     "requests", "app", "get_real_time_data", "index", "plot_to_json",
     "update_data"}

\* Evaluating a global name: "none", or the exception it raises.
LoadGlobal(name) == IF name \in ModuleGlobals THEN "none" ELSE "NameError"

\* The classes "except Exception" catches.
ExceptionClasses == {"ValueError", "NameError", "TemplateNotFound", "RuntimeError"}

(***************************************************************************)
(* Metric Provider and Chart Serializer.                                   *)
(* A DataFrame is [columns: set of column names, rows: sequence of rows].  *)
(***************************************************************************)
Row(m, v) == [metric |-> m, value |-> v]

\* pd.DataFrame(): no columns, no rows.
EmptyFrame == [columns |-> {}, rows |-> <<>>]

\* pd.DataFrame(data) of the hardcoded dict.
DefaultFrame ==
    [columns |-> {"metric", "value"},
     rows |-> <<Row("Sales", 120000), Row("Profit", 30000),
                Row("Customer Satisfaction", 85)>>]

\* DataFrame.empty: any axis of length 0.
IsEmpty(df) == df.columns = {} \/ Len(df.rows) = 0

\* The columns df['metric'] and df['value'] in row order.
ColumnMetric(rows) == [i \in 1..Len(rows) |-> rows[i].metric]
ColumnValue(rows) == [i \in 1..Len(rows) |-> rows[i].value]

\* The try block of get_real_time_data; acq_fail: fetching the data raises.
get_real_time_data_try(acq_fail) ==
    IF acq_fail THEN [exc |-> "RuntimeError", val |-> EmptyFrame]
    ELSE [exc |-> "none", val |-> DefaultFrame]

\* get_real_time_data without the except clause: the failure propagates.
get_real_time_data_Propagate(acq_fail) == get_real_time_data_try(acq_fail)

\* get_real_time_data(): the try block, and "except Exception" returning
\* pd.DataFrame().
get_real_time_data(acq_fail) ==
    LET t == get_real_time_data_try(acq_fail)
    IN  IF t.exc \in ExceptionClasses THEN [exc |-> "none", val |-> EmptyFrame]
        ELSE t

\* px.bar(df, x='metric', y='value', title=...): ValueError when a named
\* column is missing, otherwise one bar trace in row order.
px_bar(df) ==
    IF ~ ({"metric", "value"} \subseteq df.columns)
    THEN [exc |-> "ValueError", fig |-> [type |-> "bar", x |-> <<>>, y |-> <<>>,
                                          title |-> ""]]
    ELSE [exc |-> "none",
          fig |-> [type |-> "bar", x |-> ColumnMetric(df.rows),
                   y |-> ColumnValue(df.rows),
                   title |-> "Business KPI Dashboard"]]

\* The try block of plot_to_json: the emptiness check, px.bar, then the
\* evaluation of json.dumps(fig, cls=plotly.utils.PlotlyJSONEncoder), whose
\* argument plotly.utils.PlotlyJSONEncoder is evaluated before the call.
plot_to_json_try(df) ==
    IF IsEmpty(df) THEN [exc |-> "ValueError", val |-> <<>>]
    ELSE LET bar == px_bar(df)
         IN  IF bar.exc # "none" THEN [exc |-> bar.exc, val |-> <<>>]
             ELSE IF LoadGlobal("json") # "none"
                  THEN [exc |-> LoadGlobal("json"), val |-> <<>>]
             ELSE IF LoadGlobal("plotly") # "none"
                  THEN [exc |-> LoadGlobal("plotly"), val |-> <<>>]
             ELSE [exc |-> "none", val |-> json_dumps_fig(bar.fig)]

\* plot_to_json without the except clause.
plot_to_json_NoExcept(df) == plot_to_json_try(df)

\* plot_to_json in a module that also binds the name plotly.
plot_to_json_PlotlyBound(df) ==
    IF IsEmpty(df) \/ px_bar(df).exc # "none"
    THEN [exc |-> "none", val |-> json_dumps_empty]
    ELSE [exc |-> "none", val |-> json_dumps_fig(px_bar(df).fig)]

\* plot_to_json(df): the try block, and "except Exception" returning
\* json.dumps({}).
plot_to_json(df) ==
    LET t == plot_to_json_try(df)
    IN  IF t.exc \in ExceptionClasses
        THEN [exc |-> "none", val |-> json_dumps_empty]
        ELSE t

(***************************************************************************)
(* Web Server.  A response is [status, kind, fields, graphs_json, prefix,  *)
(* exc]: kind is "html" (the rendered template), "text" (a plain string),  *)
(* "json" (a jsonify envelope with the keys in fields) or "framework" (the *)
(* framework's own page for an exception that left the handler).           *)
(***************************************************************************)
Faults == {"acquire", "respond"}

HtmlPage(graphs_json) ==
    [status |-> 200, kind |-> "html", fields |-> {}, graphs_json |-> graphs_json,
     prefix |-> "", exc |-> "none"]

TextError(prefix, e) ==
    [status |-> 500, kind |-> "text", fields |-> {}, graphs_json |-> <<>>,
     prefix |-> prefix, exc |-> e]

JsonGraphs(graphs_json) ==
    [status |-> 200, kind |-> "json", fields |-> {"graphs_json"},
     graphs_json |-> graphs_json, prefix |-> "", exc |-> "none"]

JsonError(prefix, e) ==
    [status |-> 500, kind |-> "json", fields |-> {"error"}, graphs_json |-> <<>>,
     prefix |-> prefix, exc |-> e]

\* What the framework sends when an exception leaves a view function.
FrameworkError(e) ==
    [status |-> 500, kind |-> "framework", fields |-> {}, graphs_json |-> <<>>,
     prefix |-> "", exc |-> e]

\* The try block of index: get_real_time_data(), plot_to_json(df), then
\* render_template, which raises TemplateNotFound under the fault "respond".
index_try(faults) ==
    LET got == get_real_time_data("acquire" \in faults)
    IN  IF got.exc # "none" THEN [exc |-> got.exc, val |-> <<>>]
        ELSE LET ser == plot_to_json(got.val)
             IN  IF ser.exc # "none" THEN [exc |-> ser.exc, val |-> <<>>]
                 ELSE IF "respond" \in faults
                      THEN [exc |-> "TemplateNotFound", val |-> <<>>]
                 ELSE [exc |-> "none", val |-> ser.val]

\* The try block of update_data: get_real_time_data(), plot_to_json(df), then
\* jsonify of the envelope, which raises under the fault "respond".
update_data_try(faults) ==
    LET got == get_real_time_data("acquire" \in faults)
    IN  IF got.exc # "none" THEN [exc |-> got.exc, val |-> <<>>]
        ELSE LET ser == plot_to_json(got.val)
             IN  IF ser.exc # "none" THEN [exc |-> ser.exc, val |-> <<>>]
                 ELSE IF "respond" \in faults
                      THEN [exc |-> "RuntimeError", val |-> <<>>]
                 ELSE [exc |-> "none", val |-> ser.val]

\* index(): GET /.
index(faults) ==
    LET t == index_try(faults)
    IN  IF t.exc = "none" THEN HtmlPage(t.val)
        ELSE IF t.exc \in ExceptionClasses
             THEN TextError("Error loading dashboard: ", t.exc)
        ELSE FrameworkError(t.exc)

\* update_data without the except clause.
update_data_NoExcept(faults) ==
    LET t == update_data_try(faults)
    IN  IF t.exc = "none" THEN JsonGraphs(t.val) ELSE FrameworkError(t.exc)

\* update_data that reports the serializer's sentinel as an error.
update_data_CheckSentinel(faults) ==
    LET t == update_data_try(faults)
    IN  IF t.exc = "none" /\ t.val # json_dumps_empty THEN JsonGraphs(t.val)
        ELSE JsonError("Error updating data: ", t.exc)

\* update_data(): POST /update_data.
update_data(faults) ==
    LET t == update_data_try(faults)
    IN  IF t.exc = "none" THEN JsonGraphs(t.val)
        ELSE IF t.exc \in ExceptionClasses
             THEN JsonError("Error updating data: ", t.exc)
        ELSE FrameworkError(t.exc)

(***************************************************************************)
(* Client Renderer: the script of templates/index.html.                    *)
(***************************************************************************)
\* The least i >= from with text[i] = tok, or 0.
Find(text, tok, from) ==
    LET hits == {i \in from..Len(text) : text[i] = tok}
    IN  IF hits = {} THEN 0 ELSE CHOOSE i \in hits : \A j \in hits : i <= j

\* The values of a run of string tokens and of number tokens.
TokS(toks) == [i \in 1..Len(toks) |-> toks[i].s]
TokN(toks) == [i \in 1..Len(toks) |-> toks[i].n]

SyntaxError == [ok |-> FALSE, keys |-> {}, data |-> <<>>, title |-> ""]

\* JSON.parse(text): the object's keys, its data array and its layout title
\* (data <<>> and title "" when the key is absent); ok FALSE: SyntaxError.
JSON_parse(text) ==
    IF text = json_dumps_empty
    THEN [ok |-> TRUE, keys |-> {}, data |-> <<>>, title |-> ""]
    ELSE IF Len(text) < 20 \/ SubSeq(text, 1, 5) # <<P("{"), S("data"), P("["),
                                                      P("{"), S("type")>>
              \/ SubSeq(text, 7, 8) # <<S("x"), P("[")>>
    THEN SyntaxError
    ELSE LET xc == Find(text, P("]"), 9)
             yc == IF xc = 0 THEN 0 ELSE Find(text, P("]"), xc + 3)
         IN  IF xc = 0 \/ yc = 0 \/ Len(text) # yc + 8
                \/ SubSeq(text, xc + 1, xc + 2) # <<S("y"), P("[")>>
                \/ SubSeq(text, yc + 1, yc + 5) # <<P("}"), P("]"), S("layout"),
                                                   P("{"), S("title")>>
                \/ SubSeq(text, yc + 7, yc + 8) # <<P("}"), P("}")>>
             THEN SyntaxError
             ELSE [ok |-> TRUE, keys |-> {"data", "layout"},
                   data |-> <<[type |-> text[6].s,
                               x |-> TokS(SubSeq(text, 9, xc - 1)),
                               y |-> TokN(SubSeq(text, xc + 3, yc - 1))]>>,
                   title |-> text[yc + 6].s]

\* The dashboard container before anything is drawn into it.
NoChart == [drawn |-> FALSE, given |-> {}, data |-> <<>>, title |-> ""]

\* Plotly.newPlot('dashboard', graphs_json.data, graphs_json.layout): replaces
\* the container's content; given: which of the two arguments are defined.
Plotly_newPlot(parsed) ==
    [drawn |-> TRUE, given |-> parsed.keys \cap {"data", "layout"},
     data |-> parsed.data, title |-> parsed.title]

\* The inline script at page load: JSON.parse of the embedded text, then
\* Plotly.newPlot; an uncaught SyntaxError leaves the container empty.
initial_render(graphs_json, id) ==
    LET parsed == JSON_parse(graphs_json)
    IN  IF parsed.ok THEN [act |-> "redraw", chart |-> Plotly_newPlot(parsed), from |-> id]
        ELSE [act |-> "console", chart |-> NoChart, from |-> 0]

\* updateDashboard's handlers that clear the container when alerting.
on_response_ClearOnError(id, resp, chart, from) ==
    IF resp.kind # "json" THEN [act |-> "console", chart |-> chart, from |-> from]
    ELSE IF "error" \in resp.fields THEN [act |-> "alert", chart |-> NoChart, from |-> id]
    ELSE LET parsed == JSON_parse(resp.graphs_json)
         IN  [act |-> "redraw", chart |-> Plotly_newPlot(parsed), from |-> id]

\* updateDashboard's handlers that skip a response older than the one drawn.
on_response_DropStale(id, resp, chart, from) ==
    IF resp.kind # "json" THEN [act |-> "console", chart |-> chart, from |-> from]
    ELSE IF "error" \in resp.fields THEN [act |-> "alert", chart |-> chart, from |-> from]
    ELSE IF id < from THEN [act |-> "skip", chart |-> chart, from |-> from]
    ELSE LET parsed == JSON_parse(resp.graphs_json)
         IN  [act |-> "redraw", chart |-> Plotly_newPlot(parsed), from |-> id]

\* updateDashboard's .then/.catch chain on the response of request id, with
\* chart (drawn by request from) in the container: response.json() rejects
\* on a body that is not JSON (catch: console.error); data.error: alert;
\* otherwise JSON.parse(data.graphs_json), which throws on an absent or
\* malformed text (catch: console.error), then Plotly.newPlot.
on_response(id, resp, chart, from) ==
    IF resp.kind # "json" THEN [act |-> "console", chart |-> chart, from |-> from]
    ELSE IF "error" \in resp.fields THEN [act |-> "alert", chart |-> chart, from |-> from]
    ELSE IF "graphs_json" \notin resp.fields
    THEN [act |-> "console", chart |-> chart, from |-> from]
    ELSE LET parsed == JSON_parse(resp.graphs_json)
         IN  IF ~ parsed.ok THEN [act |-> "console", chart |-> chart, from |-> from]
             ELSE [act |-> "redraw", chart |-> Plotly_newPlot(parsed), from |-> id]

(***************************************************************************)
(* State.                                                                  *)
(***************************************************************************)
VARIABLES
    nreq,       \* number of HTTP requests issued so far (their ids are 1..nreq)
    page,       \* the browser tab: "blank", "dashboard" or "error"
    shown,      \* the chart in the dashboard container
    shownFrom,  \* the request whose response drew it (0: none)
    pending,    \* refresh requests on their way to the server
    replies,    \* refresh responses on their way to the client
    atTrigger,  \* per refresh request, the chart shown when it was triggered
    alerts,     \* the alert() calls so far
    console,    \* the console.error calls so far
    served,     \* every response the server has produced
    handled,    \* the refresh outcomes the client has handled, in arrival order
    df,         \* SpecPlot: the table handed to plot_to_json
    out,        \* SpecPlot: what plot_to_json returned or raised
    pc          \* SpecPlot: "call", "done"; "idle" under Spec

vars == <<nreq, page, shown, shownFrom, pending, replies, atTrigger, alerts,
          console, served, handled, df, out, pc>>

plotVars == <<df, out, pc>>
clientVars == <<page, shown, shownFrom, atTrigger, alerts, console, handled>>

FaultSets == SUBSET Faults

InitSystem ==
    /\ nreq = 0
    /\ page = "blank"
    /\ shown = NoChart
    /\ shownFrom = 0
    /\ pending = {}
    /\ replies = {}
    /\ atTrigger = {}
    /\ alerts = <<>>
    /\ console = <<>>
    /\ served = {}
    /\ handled = <<>>

Init ==
    /\ InitSystem
    /\ df = EmptyFrame
    /\ out = [exc |-> "none", val |-> <<>>]
    /\ pc = "idle"

\* A handled refresh outcome: what the client did (act), the status it saw
\* (0: no response), and the container before (prev) and after (chart, from).
Handled(id, act, status, prev, chart, from) ==
    [id |-> id, act |-> act, status |-> status, prev |-> prev, chart |-> chart,
     from |-> from]

Served(id, route, faults, resp) ==
    [id |-> id, route |-> route, faults |-> faults, resp |-> resp]

(***************************************************************************)
(* Actions.                                                                *)
(***************************************************************************)
\* The browser opens the page: GET / is served by index and, on an HTML
\* page, the inline script draws the embedded chart.
Navigate(faults) ==
    /\ page = "blank"
    /\ nreq < MaxRequests
    /\ LET id == nreq + 1
           resp == index(faults)
           r == initial_render(resp.graphs_json, id)
       IN  /\ nreq' = id
           /\ served' = served \cup {Served(id, "index", faults, resp)}
           /\ IF resp.kind = "html"
              THEN /\ page' = "dashboard"
                   /\ shown' = r.chart
                   /\ shownFrom' = r.from
                   /\ console' = IF r.act = "console"
                                 THEN Append(console, "SyntaxError") ELSE console
              ELSE /\ page' = "error"
                   /\ UNCHANGED <<shown, shownFrom, console>>
    /\ UNCHANGED <<pending, replies, atTrigger, alerts, handled, plotVars>>

\* Another HTTP client calls a route; the server answers it.
ForeignCall(route, faults) ==
    /\ nreq < MaxRequests
    /\ LET id == nreq + 1
           resp == IF route = "index" THEN index(faults) ELSE update_data(faults)
       IN  /\ nreq' = id
           /\ served' = served \cup {Served(id, route, faults, resp)}
    /\ UNCHANGED <<pending, replies, clientVars, plotVars>>

\* The user clicks "Update Data": fetch('/update_data', {method: 'POST'}).
TriggerRefresh ==
    /\ page = "dashboard"
    /\ nreq < MaxRequests
    /\ nreq' = nreq + 1
    /\ pending' = pending \cup {nreq + 1}
    /\ atTrigger' = atTrigger \cup
                        {[id |-> nreq + 1, chart |-> shown, from |-> shownFrom]}
    /\ UNCHANGED <<page, shown, shownFrom, replies, alerts, console, served,
                   handled, plotVars>>

\* The server handles a refresh request with update_data.
ServeUpdate(id, faults) ==
    /\ id \in pending
    /\ LET resp == update_data(faults)
       IN  /\ served' = served \cup {Served(id, "update_data", faults, resp)}
           /\ replies' = replies \cup {[id |-> id, resp |-> resp]}
    /\ pending' = pending \ {id}
    /\ UNCHANGED <<nreq, clientVars, plotVars>>

\* The request never reaches the server: fetch rejects, .catch logs.
RequestLost(id) ==
    /\ id \in pending
    /\ pending' = pending \ {id}
    /\ console' = Append(console, "Error updating dashboard:")
    /\ handled' = Append(handled, Handled(id, "console", 0, shown, shown, shownFrom))
    /\ UNCHANGED <<nreq, page, shown, shownFrom, replies, atTrigger, alerts,
                   served, plotVars>>

\* The response never reaches the client: fetch rejects, .catch logs.
ReplyLost(rp) ==
    /\ rp \in replies
    /\ replies' = replies \ {rp}
    /\ console' = Append(console, "Error updating dashboard:")
    /\ handled' = Append(handled,
                        Handled(rp.id, "console", 0, shown, shown, shownFrom))
    /\ UNCHANGED <<nreq, page, shown, shownFrom, pending, atTrigger, alerts,
                   served, plotVars>>

\* A response arrives and updateDashboard's promise chain runs on it.
ReceiveReply(rp) ==
    /\ rp \in replies
    /\ replies' = replies \ {rp}
    /\ LET r == on_response(rp.id, rp.resp, shown, shownFrom)
       IN  /\ shown' = r.chart
           /\ shownFrom' = r.from
           /\ alerts' = IF r.act = "alert"
                        THEN Append(alerts, <<rp.resp.prefix, rp.resp.exc>>)
                        ELSE alerts
           /\ console' = IF r.act = "console"
                         THEN Append(console, "Error updating dashboard:")
                         ELSE console
           /\ handled' = Append(handled, Handled(rp.id, r.act, rp.resp.status,
                                                  shown, r.chart, r.from))
    /\ UNCHANGED <<nreq, page, pending, atTrigger, served, plotVars>>

Next ==
    \/ \E faults \in FaultSets : Navigate(faults)
    \/ \E route \in {"index", "update_data"}, faults \in FaultSets :
           ForeignCall(route, faults)
    \/ TriggerRefresh
    \/ \E id \in pending, faults \in FaultSets : ServeUpdate(id, faults)
    \/ \E id \in pending : RequestLost(id)
    \/ \E rp \in replies : ReplyLost(rp)
    \/ \E rp \in replies : ReceiveReply(rp)

Spec == Init /\ [][Next]_vars

(***************************************************************************)
(* The Chart Serializer on its own: plot_to_json applied to any table of   *)
(* at most MaxRows rows, with or without the two columns.                  *)
(***************************************************************************)
MetricNames == {"Sales", "Profit"}
MetricValues == {DefaultFrame.rows[2].value, DefaultFrame.rows[3].value}

RowsUpTo(n) ==
    UNION {[1..k -> {Row(m, v) : m \in MetricNames, v \in MetricValues}] : k \in 0..n}

Frames == {[columns |-> c, rows |-> r] : c \in SUBSET {"metric", "value"},
                                         r \in RowsUpTo(MaxRows)}

InitPlot ==
    /\ InitSystem
    /\ df \in Frames
    /\ out = [exc |-> "none", val |-> <<>>]
    /\ pc = "call"

CallPlot ==
    /\ pc = "call"
    /\ out' = plot_to_json(df)
    /\ pc' = "done"
    /\ UNCHANGED <<df, nreq, pending, replies, served, clientVars>>

NextPlot == CallPlot

SpecPlot == InitPlot /\ [][NextPlot]_vars

(***************************************************************************)
(* Properties.                                                             *)
(***************************************************************************)
ServedFor(id) == CHOOSE e \in served : e.id = id

DefaultSeries ==
    <<[type |-> "bar", x |-> <<"Sales", "Profit", "Customer Satisfaction">>,
       y |-> <<120000, 30000, 85>>]>>

\* The chart Plotly.newPlot draws from the parsed text "{}".
AbsentChart == [drawn |-> TRUE, given |-> {}, data |-> <<>>, title |-> ""]

\* C1: for every non-empty table with the metric and value columns,
\* plot_to_json returns a text other than "{}" whose single bar series has
\* x equal to the table's metric names and y equal to its values, in row order.
C1_SeriesMatchesTable ==
    (pc = "done" /\ ~ IsEmpty(df) /\ {"metric", "value"} \subseteq df.columns)
        => /\ out.exc = "none"
           /\ out.val # json_dumps_empty
           /\ JSON_parse(out.val).data =
                  <<[type |-> "bar", x |-> ColumnMetric(df.rows),
                     y |-> ColumnValue(df.rows)]>>

\* C2: plot_to_json raises for no table, and returns "{}" for an empty one.
C2_EmptyGivesSentinelNeverRaises ==
    pc = "done" => /\ out.exc = "none"
                   /\ IsEmpty(df) => out.val = json_dumps_empty

C2_Witness ==
    /\ pc = "done"
    /\ IsEmpty(df)
    /\ df.columns = {"metric", "value"}
    /\ out = [exc |-> "none", val |-> json_dumps_empty]

\* C3: without an injected failure POST /update_data answers 200 with a
\* graphs_json whose series is Sales 120000, Profit 30000, Customer
\* Satisfaction 85.
C3_UpdateCarriesDefaultValues ==
    \A e \in served :
        (e.route = "update_data" /\ e.faults = {})
            => /\ e.resp.status = 200
               /\ "graphs_json" \in e.resp.fields
               /\ JSON_parse(e.resp.graphs_json).data = DefaultSeries

\* C4: without an injected failure GET / answers 200 and the embedded chart's
\* data array has exactly one series of exactly 3 points.
C4_IndexEmbedsOneSeriesOfThree ==
    \A e \in served :
        (e.route = "index" /\ e.faults = {})
            => /\ e.resp.status = 200
               /\ Len(JSON_parse(e.resp.graphs_json).data) = 1
               /\ Len(JSON_parse(e.resp.graphs_json).data[1].x) = 3
               /\ Len(JSON_parse(e.resp.graphs_json).data[1].y) = 3

\* C5: whatever requests were served before or between them, any two
\* POST /update_data responses that carry graphs_json carry the same text.
C5_UpdatePayloadsIdentical ==
    \A e1, e2 \in served :
        (/\ e1.route = "update_data" /\ "graphs_json" \in e1.resp.fields
         /\ e2.route = "update_data" /\ "graphs_json" \in e2.resp.fields)
            => e1.resp.graphs_json = e2.resp.graphs_json

C5_Witness ==
    \E e1, e2, e3 \in served :
        /\ e1.id < e3.id /\ e3.id < e2.id
        /\ e1.route = "update_data" /\ e1.resp.status = 200 /\ e1.faults = {}
        /\ e3.route = "index"
        /\ e2.route = "update_data" /\ e2.resp.status = 200
        /\ e2.faults = {"acquire"}

\* C6: when data acquisition fails (and nothing else does)
\* get_real_time_data returns the empty table and GET / answers 200 with the
\* text "{}" embedded in the page.
C6_AcquisitionFailureStill200 ==
    /\ get_real_time_data(TRUE) = [exc |-> "none", val |-> EmptyFrame]
    /\ \A e \in served :
           (e.route = "index" /\ e.faults = {"acquire"})
               => /\ e.resp.status = 200
                  /\ e.resp.kind = "html"
                  /\ e.resp.graphs_json = json_dumps_empty

C6_Witness ==
    /\ page = "dashboard"
    /\ shown = AbsentChart
    /\ \E e \in served : /\ e.id = shownFrom /\ e.route = "index"
                          /\ e.faults = {"acquire"} /\ e.resp.status = 200

\* C7: every GET / ends in a 200 HTML page or a 500 plain text carrying the
\* failure raised in the handler; every POST /update_data ends in 200 with
\* graphs_json and no error field, or 500 with an error field and no
\* graphs_json.
C7_NoFailureEscapesHandler ==
    \A e \in served :
        /\ e.route = "index" =>
               \/ e.resp.status = 200 /\ e.resp.kind = "html"
               \/ /\ e.resp.status = 500 /\ e.resp.kind = "text"
                  /\ e.resp.exc # "none" /\ e.resp.exc = index_try(e.faults).exc
        /\ e.route = "update_data" =>
               \/ /\ e.resp.status = 200 /\ e.resp.kind = "json"
                  /\ e.resp.fields = {"graphs_json"}
               \/ /\ e.resp.status = 500 /\ e.resp.kind = "json"
                  /\ e.resp.fields = {"error"}

C7_Witness ==
    \E e1, e2 \in served :
        /\ e1.route = "index" /\ e1.resp.status = 500 /\ e1.resp.kind = "text"
        /\ e2.route = "update_data" /\ e2.resp.status = 500
        /\ e2.resp.fields = {"error"}

\* C8: a refresh whose response carries an error field ends in an alert, one
\* that fails in transport ends in a console log only, and in both cases
\* nothing is drawn: the container holds the chart it held just before, which
\* is the chart it held when the refresh was triggered.
C8_FailedRefreshKeepsChart ==
    \A i \in DOMAIN handled :
        LET h == handled[i]
        IN  /\ h.status = 500 => h.act = "alert"
            /\ h.status = 0 => h.act = "console"
            /\ h.act \in {"alert", "console"} =>
                   /\ h.chart = h.prev
                   /\ \E t \in atTrigger : t.id = h.id /\ t.chart = h.chart

C8_Witness ==
    \E i, j, k \in DOMAIN handled :
        /\ i < j
        /\ handled[i].act = "redraw"
        /\ handled[j].act = "alert"
        /\ handled[j].id < handled[i].id
        /\ handled[k].act = "console"
        /\ Len(alerts) = 1
        /\ Len(console) = 1
        /\ shown = AbsentChart

\* C9: the container always holds the chart carried by the response that
\* arrived last among those carrying one, whatever the order in which the
\* requests were issued.
C9_LastArrivalWins ==
    LET ok == {i \in DOMAIN handled : handled[i].status = 200}
    IN  ok # {} =>
            LET last == CHOOSE i \in ok : \A j \in ok : j <= i
            IN  /\ shownFrom = handled[last].id
                /\ shown = Plotly_newPlot(
                               JSON_parse(ServedFor(handled[last].id).resp.graphs_json))

C9_Witness ==
    /\ pending = {}
    /\ replies = {}
    /\ Len(handled) = 2
    /\ handled[1].status = 200
    /\ handled[2].status = 200
    /\ handled[2].id < handled[1].id
    /\ shownFrom = handled[2].id

\* C10: a failure recovered inside get_real_time_data or plot_to_json is not
\* reported as an error: unless another exception reaches the handler,
\* whenever plot_to_json returns "{}" POST /update_data answers 200 with
\* graphs_json = "{}" and no error field, and the client, on such a response,
\* alerts nothing and redraws the container from absent data and layout.
C10_SentinelIsServedAndDrawn ==
    /\ \A e \in served :
           (/\ e.route = "update_data"
            /\ "respond" \notin e.faults
            /\ plot_to_json(get_real_time_data("acquire" \in e.faults).val).val
                   = json_dumps_empty)
               => /\ e.resp.status = 200
                  /\ e.resp.fields = {"graphs_json"}
                  /\ e.resp.graphs_json = json_dumps_empty
    /\ \A i \in DOMAIN handled :
           (/\ handled[i].status = 200
            /\ ServedFor(handled[i].id).resp.graphs_json = json_dumps_empty)
               => /\ handled[i].act = "redraw"
                  /\ handled[i].chart = AbsentChart
                  /\ handled[i].from = handled[i].id

C10_Witness ==
    /\ Len(handled) = 1
    /\ handled[1].act = "redraw"
    /\ ServedFor(handled[1].id).faults = {"acquire"}
    /\ ServedFor(handled[1].id).resp.status = 200
    /\ shown = AbsentChart
    /\ shownFrom = handled[1].id
    /\ alerts = <<>>

====
